---- MODULE Spec2Model ----
(***************************************************************************)
(* Model of graph_search: the storage backends of graph.py (edge list,     *)
(* adjacency matrix, adjacency list; directed and undirected) driven by    *)
(* the same sequence of add_edge calls and read queries, and the frontier  *)
(* search engine that consumes the graph contract.                         *)
(*                                                                         *)
(* Weights are integer-valued floats.  The list backends keep the Python   *)
(* object that was passed; the matrix backends store it in a float32 grid, *)
(* so a weight goes through ToDTYPE on its way in.                         *)
(***************************************************************************)
EXTENDS Integers, Sequences, FiniteSets, TLC

\* ------------------------------------------------------------------ bounds

\* Largest vertex id passed to add_edge.
MaxVertex == 1

\* Largest number of add_edge calls in one run.
MaxCalls == 2

\* Largest number of read queries (and validations) in one run.
MaxQueries == 1

VertexIds == 0..MaxVertex

\* Ids that are queried: one more than can have been added, so that a query
\* can fall beyond the grid of a matrix backend.
QueryIds == 0..(MaxVertex + 1)

\* 0 is the value the grid is padded with, 1 is the default weight of
\* add_edge, 16777217 = 2^24 + 1 is a float that float32 cannot represent.
Weights == {0, 1, 16777217}

\* ----------------------------------------------------------------- helpers

Range(s) == {s[i] : i \in DOMAIN s}

\* A Python list whose order the callers do not rely on: record -> how often.
BagOfSet(S) == [x \in S |-> 1]

BagOfSeq(s) == [x \in Range(s) |-> Cardinality({i \in DOMAIN s : s[i] = x})]

RECURSIVE SumOver(_, _)
SumOver(f, S) ==
    IF S = {} THEN 0
    ELSE LET x == CHOOSE y \in S : TRUE IN f[x] + SumOver(f, S \ {x})

\* len() of the list a bag stands for.
BagLen(bag) == SumOver(bag, DOMAIN bag)

\* set() of the list a bag stands for.
BagSet(bag) == DOMAIN bag

NoException == "none"

Returned(bag) == [raised |-> NoException, result |-> bag]

Raised(exc) == [raised |-> exc, result |-> BagOfSet({})]

\* --------------------------------------------------------------- float32

\* Bits of the float32 significand.
SignificandBits == 24

RECURSIVE Pow2(_)
Pow2(k) == IF k = 0 THEN 1 ELSE 2 * Pow2(k - 1)

RECURSIVE UlpOf(_, _)
\* Spacing of the float32 values around the magnitude a >= 2^SignificandBits.
UlpOf(a, ulp) ==
    IF a < ulp * Pow2(SignificandBits) THEN ulp ELSE UlpOf(a, 2 * ulp)

\* The value an integer-valued float has once stored in an array of DTYPE
\* (float32): rounded to 24 significant bits, ties to even.
ToDTYPE(w) ==
    LET a == IF w < 0 THEN -w ELSE w IN
    IF a < Pow2(SignificandBits) THEN w
    ELSE LET ulp  == UlpOf(a, 1)
             q    == a \div ulp
             r    == a % ulp
             half == ulp \div 2
             mag  == IF r < half THEN q * ulp
                     ELSE IF r > half THEN (q + 1) * ulp
                     ELSE IF q % 2 = 0 THEN q * ulp ELSE (q + 1) * ulp
         IN IF w < 0 THEN -mag ELSE mag

\* ------------------------------------------------------ edge-list backends

\* AbstractEdgeListGraph.__init__
EdgeListInit == [vertices |-> {}, edge_list |-> {}, edge_set |-> {}]

EdgeListVertices(g) == g.vertices

\* list(self._edge_list): every stored record once.
EdgeListEdges(g) == BagOfSet(g.edge_list)

\* Plausible slip: the predicate looks at the wrong end of the edge.
EdgeListEdgesFrom_ByTarget(g, vertex) ==
    IF vertex \notin g.vertices THEN Raised("VertexNotFoundException")
    ELSE Returned(BagOfSet({e \in g.edge_list : e[2] = vertex}))

EdgeListEdgesFrom(g, vertex) ==
    IF vertex \notin g.vertices THEN Raised("VertexNotFoundException")
    ELSE Returned(BagOfSet({e \in g.edge_list : e[1] = vertex}))

EdgeListEdgesTo(g, vertex) ==
    IF vertex \notin g.vertices THEN Raised("VertexNotFoundException")
    ELSE Returned(BagOfSet({e \in g.edge_list : e[2] = vertex}))

DirectedEdgeListAddEdge(g, vertex_from, vertex_to, weight) ==
    IF <<vertex_from, vertex_to>> \in g.edge_set
    THEN [g |-> g, raised |-> "MultipleEdgesException"]
    ELSE [g |-> [vertices  |-> g.vertices \cup {vertex_from, vertex_to},
                 edge_list |-> g.edge_list \cup {<<vertex_from, vertex_to, weight>>},
                 edge_set  |-> g.edge_set \cup {<<vertex_from, vertex_to>>}],
          raised |-> NoException]

UndirectedEdgeListAddEdge(g, vertex_from, vertex_to, weight) ==
    IF \/ <<vertex_from, vertex_to>> \in g.edge_set
       \/ <<vertex_to, vertex_from>> \in g.edge_set
    THEN [g |-> g, raised |-> "MultipleEdgesException"]
    ELSE [g |-> [vertices  |-> g.vertices \cup {vertex_from, vertex_to},
                 edge_list |-> g.edge_list \cup {<<vertex_from, vertex_to, weight>>,
                                                 <<vertex_to, vertex_from, weight>>},
                 edge_set  |-> g.edge_set \cup {<<vertex_from, vertex_to>>}],
          raised |-> NoException]

\* cnt[(a, b)]: each stored record counts once for its pair and once for the
\* reversed pair (twice for the same key when a = b).
EdgeListPairCount(g, a, b) ==
    Cardinality({e \in g.edge_list : e[1] = a /\ e[2] = b})
    + Cardinality({e \in g.edge_list : e[2] = a /\ e[1] = b})

UndirectedEdgeListValidate(g) ==
    LET keys == {<<e[1], e[2]>> : e \in g.edge_list}
                \cup {<<e[2], e[1]>> : e \in g.edge_list}
    IN IF \A k \in keys : EdgeListPairCount(g, k[1], k[2]) = 2
       THEN NoException
       ELSE "GraphInvariantViolationException"

\* ------------------------------------------------- adjacency-matrix backends

\* np.empty((0, 0)): a grid of size 0.
MatrixInit == [n |-> 0, cell |-> [p \in {} |-> 0]]

MatrixIndex(n) == (0..(n - 1)) \X (0..(n - 1))

\* Plausible slip: the zero grid of the new size replaces the old one without
\* the old entries being copied in.
MatrixResize_Fresh(g, size) ==
    [n    |-> size,
     cell |-> [p \in MatrixIndex(size) |-> 0]]

\* _resize: a zero grid of the new size with the old one copied into its corner.
MatrixResize(g, size) ==
    [n    |-> size,
     cell |-> [p \in MatrixIndex(size) |->
                 IF p[1] < g.n /\ p[2] < g.n THEN g.cell[p] ELSE 0]]

\* Columns with a non-zero entry: any(axis=0).
MatrixColumns(g) == {j \in 0..(g.n - 1) : \E i \in 0..(g.n - 1) : g.cell[<<i, j>>] # 0}

\* Rows with a non-zero entry: any(axis=1).
MatrixRows(g) == {i \in 0..(g.n - 1) : \E j \in 0..(g.n - 1) : g.cell[<<i, j>>] # 0}

UndirectedMatrixVertices(g) == MatrixColumns(g)

DirectedMatrixVertices(g) == MatrixColumns(g) \cup MatrixRows(g)

\* np.where(matrix): the non-zero cells, each once.
MatrixEdges(g) ==
    BagOfSet({<<p[1], p[2], g.cell[p]>> : p \in {q \in MatrixIndex(g.n) : g.cell[q] # 0}})

\* Plausible slip: the grid is indexed [i, vertex], the column of the vertex.
MatrixEdgesFrom_ByColumn(g, vertex) ==
    IF vertex >= g.n THEN Raised("IndexError")
    ELSE Returned(BagOfSet({<<vertex, i, g.cell[<<i, vertex>>]>> :
                              i \in {j \in 0..(g.n - 1) : g.cell[<<j, vertex>>] # 0}}))

\* Indexing row `vertex` of the grid raises IndexError beyond its size.
MatrixEdgesFrom(g, vertex) ==
    IF vertex >= g.n THEN Raised("IndexError")
    ELSE Returned(BagOfSet({<<vertex, i, g.cell[<<vertex, i>>]>> :
                              i \in {j \in 0..(g.n - 1) : g.cell[<<vertex, j>>] # 0}}))

MatrixEdgesTo(g, vertex) ==
    IF vertex >= g.n THEN Raised("IndexError")
    ELSE Returned(BagOfSet({<<i, vertex, g.cell[<<i, vertex>>]>> :
                              i \in {j \in 0..(g.n - 1) : g.cell[<<j, vertex>>] # 0}}))

\* np.array_equiv(matrix, matrix.T)
UndirectedMatrixValidate(g) ==
    IF \A p \in MatrixIndex(g.n) : g.cell[p] = g.cell[<<p[2], p[1]>>]
    THEN NoException
    ELSE "GraphInvariantViolationException"

Max(a, b) == IF a > b THEN a ELSE b

UndirectedMatrixAddEdge(g, vertex_from, vertex_to, weight) ==
    LET greatest_vertex == Max(vertex_from, vertex_to) IN
    IF /\ g.n > greatest_vertex
       /\ \/ g.cell[<<vertex_from, vertex_to>>] # 0
          \/ g.cell[<<vertex_to, vertex_from>>] # 0
    THEN [g |-> g, raised |-> "MultipleEdgesException"]
    ELSE LET grown == IF g.n > greatest_vertex THEN g
                      ELSE MatrixResize(g, greatest_vertex + 1)
             first == [grown.cell EXCEPT ![<<vertex_from, vertex_to>>] = ToDTYPE(weight)]
         IN [g |-> [n    |-> grown.n,
                    cell |-> [first EXCEPT ![<<vertex_to, vertex_from>>] = ToDTYPE(weight)]],
             raised |-> NoException]

DirectedMatrixAddEdge(g, vertex_from, vertex_to, weight) ==
    LET greatest_vertex == Max(vertex_from, vertex_to) IN
    IF g.n > greatest_vertex /\ g.cell[<<vertex_from, vertex_to>>] # 0
    THEN [g |-> g, raised |-> "MultipleEdgesException"]
    ELSE LET grown == IF g.n > greatest_vertex THEN g
                      ELSE MatrixResize(g, greatest_vertex + 1)
         IN [g |-> [n    |-> grown.n,
                    cell |-> [grown.cell EXCEPT
                                ![<<vertex_from, vertex_to>>] = ToDTYPE(weight)]],
             raised |-> NoException]

\* --------------------------------------------------- adjacency-list backend

\* defaultdict(list) with no key yet, and an empty duplicate-detection set.
AdjListInit == [adjacency_list |-> [k \in {} |-> <<>>], edge_set |-> {}]

\* self._adjacency_list[key] on a defaultdict: a missing key is inserted with [].
AdjListTouch(adj, key) ==
    IF key \in DOMAIN adj THEN adj
    ELSE [k \in DOMAIN adj \cup {key} |-> IF k = key THEN <<>> ELSE adj[k]]

AdjListAppend(adj, key, item) ==
    LET touched == AdjListTouch(adj, key)
    IN [touched EXCEPT ![key] = Append(@, item)]

\* The keys of the mapping together with every neighbour stored under a key.
AdjListVertices(g) ==
    DOMAIN g.adjacency_list
    \cup {e[1] : e \in UNION {Range(g.adjacency_list[k]) : k \in DOMAIN g.adjacency_list}}

\* The records (key, neighbour, weight) stored under one key, in list order.
AdjListRecords(adj, k) == [i \in DOMAIN adj[k] |-> <<k, adj[k][i][1], adj[k][i][2]>>]

\* One record per stored (neighbour, weight) item, repeated items included.
AdjListEdges(g) ==
    LET adj  == g.adjacency_list
        recs == UNION {Range(AdjListRecords(adj, k)) : k \in DOMAIN adj}
    IN [r \in recs |->
          Cardinality({i \in DOMAIN adj[r[1]] : AdjListRecords(adj, r[1])[i] = r})]

\* Reads self._adjacency_list[vertex], which inserts a missing key; never raises.
AdjListEdgesFrom(g, vertex) ==
    LET adj == AdjListTouch(g.adjacency_list, vertex)
    IN [g      |-> [g EXCEPT !.adjacency_list = adj],
        raised |-> NoException,
        result |-> BagOfSeq(AdjListRecords(adj, vertex))]

\* list(set(...)): the records into `vertex`, each once; never raises.
AdjListEdgesTo(g, vertex) ==
    LET adj == g.adjacency_list
    IN Returned(BagOfSet({r \in UNION {Range(AdjListRecords(adj, k)) : k \in DOMAIN adj} :
                            r[2] = vertex}))

UndirectedAdjListAddEdge(g, vertex_from, vertex_to, weight) ==
    IF \/ <<vertex_from, vertex_to>> \in g.edge_set
       \/ <<vertex_to, vertex_from>> \in g.edge_set
    THEN [g |-> g, raised |-> "MultipleEdgesException"]
    ELSE [g |-> [adjacency_list |->
                   AdjListAppend(AdjListAppend(g.adjacency_list, vertex_from,
                                               <<vertex_to, weight>>),
                                 vertex_to, <<vertex_from, weight>>),
                 edge_set |-> g.edge_set \cup {<<vertex_from, vertex_to>>,
                                               <<vertex_to, vertex_from>>}],
          raised |-> NoException]

\* UndirectedGraph.validate_undirectedness, which the adjacency-list class
\* inherits: a body of a docstring only, it returns without raising.
UndirectedGraphValidate(g) == NoException

\* ----------------------------------------------------------- graph contract

Backends == {"DirectedEdgeListGraph", "UndirectedEdgeListGraph",
             "UndirectedAdjacencyMatrixGraph", "DirectedAdjacencyMatrixGraph",
             "UndirectedAdjacencyListGraph"}

EdgeListBackends == {"DirectedEdgeListGraph", "UndirectedEdgeListGraph"}

MatrixBackends == {"UndirectedAdjacencyMatrixGraph", "DirectedAdjacencyMatrixGraph"}

AdjListBackends == {"UndirectedAdjacencyListGraph"}

UndirectedBackends == {"UndirectedEdgeListGraph", "UndirectedAdjacencyMatrixGraph",
                       "UndirectedAdjacencyListGraph"}

DirectedBackends == Backends \ UndirectedBackends

\* GraphType()
NewGraph(b) ==
    IF b \in EdgeListBackends THEN EdgeListInit
    ELSE IF b \in MatrixBackends THEN MatrixInit
    ELSE AdjListInit

\* graph.vertices, as a set.
Vertices(b, g) ==
    IF b \in EdgeListBackends THEN EdgeListVertices(g)
    ELSE IF b = "UndirectedAdjacencyMatrixGraph" THEN UndirectedMatrixVertices(g)
    ELSE IF b = "DirectedAdjacencyMatrixGraph" THEN DirectedMatrixVertices(g)
    ELSE AdjListVertices(g)

\* graph.edges, as a bag of (from, to, weight) records.
Edges(b, g) ==
    IF b \in EdgeListBackends THEN EdgeListEdges(g)
    ELSE IF b \in MatrixBackends THEN MatrixEdges(g)
    ELSE AdjListEdges(g)

\* graph.add_edge(vertex_from, vertex_to, weight): the graph after the call
\* and the exception it raised, if any.
AddEdge(b, g, vertex_from, vertex_to, weight) ==
    IF b = "DirectedEdgeListGraph"
      THEN DirectedEdgeListAddEdge(g, vertex_from, vertex_to, weight)
    ELSE IF b = "UndirectedEdgeListGraph"
      THEN UndirectedEdgeListAddEdge(g, vertex_from, vertex_to, weight)
    ELSE IF b = "UndirectedAdjacencyMatrixGraph"
      THEN UndirectedMatrixAddEdge(g, vertex_from, vertex_to, weight)
    ELSE IF b = "DirectedAdjacencyMatrixGraph"
      THEN DirectedMatrixAddEdge(g, vertex_from, vertex_to, weight)
    ELSE UndirectedAdjListAddEdge(g, vertex_from, vertex_to, weight)

\* graph.edges_from(vertex): the graph after the call, the exception raised,
\* if any, and the list returned.
EdgesFrom(b, g, vertex) ==
    IF b \in EdgeListBackends
      THEN LET r == EdgeListEdgesFrom(g, vertex)
           IN [g |-> g, raised |-> r.raised, result |-> r.result]
    ELSE IF b \in MatrixBackends
      THEN LET r == MatrixEdgesFrom(g, vertex)
           IN [g |-> g, raised |-> r.raised, result |-> r.result]
    ELSE AdjListEdgesFrom(g, vertex)

\* graph.edges_to(vertex)
EdgesTo(b, g, vertex) ==
    LET r == IF b \in EdgeListBackends THEN EdgeListEdgesTo(g, vertex)
             ELSE IF b \in MatrixBackends THEN MatrixEdgesTo(g, vertex)
             ELSE AdjListEdgesTo(g, vertex)
    IN [g |-> g, raised |-> r.raised, result |-> r.result]

\* graph.validate_undirectedness() on an undirected backend.
ValidateUndirectedness(b, g) ==
    IF b = "UndirectedEdgeListGraph" THEN UndirectedEdgeListValidate(g)
    ELSE IF b = "UndirectedAdjacencyMatrixGraph" THEN UndirectedMatrixValidate(g)
    ELSE UndirectedGraphValidate(g)

\* ------------------------------------------------------------------- state

VARIABLES
    graphs,     \* backend name -> the instance of that backend
    added,      \* backend name -> the add_edge calls that returned, in order
    last,       \* the last call made on every instance, and how it ended
    ncalls,     \* add_edge calls, and direct writes of the storage, made so far
    nqueries,   \* read queries and validations made so far
    search      \* the search engine: its state, frontier, visited set, path map

vars == <<graphs, added, last, ncalls, nqueries, search>>

NoResult == [b \in Backends |-> BagOfSet({})]

NoOutcome == [b \in Backends |-> NoException]

Call(op, u, v, w, out, res) ==
    [op |-> op, u |-> u, v |-> v, w |-> w, out |-> out, res |-> res]

\* No search is running.
IdleSearch ==
    [state |-> "Idle", backend |-> "none", strategy |-> "none", start |-> 0,
     goal |-> 0, frontier |-> <<>>, visited |-> {}, pred |-> <<>>, path |-> <<>>]

Init ==
    /\ graphs = [b \in Backends |-> NewGraph(b)]
    /\ added = [b \in Backends |-> <<>>]
    /\ last = Call("new", 0, 0, 0, NoOutcome, NoResult)
    /\ ncalls = 0
    /\ nqueries = 0
    /\ search = IdleSearch

\* The same add_edge call on every instance.
CallAddEdge(u, v, w) ==
    /\ ncalls < MaxCalls
    /\ LET r == [b \in Backends |-> AddEdge(b, graphs[b], u, v, w)] IN
       /\ graphs' = [b \in Backends |-> r[b].g]
       /\ added' = [b \in Backends |->
                      IF r[b].raised = NoException
                      THEN Append(added[b], <<u, v, w>>) ELSE added[b]]
       /\ last' = Call("add_edge", u, v, w, [b \in Backends |-> r[b].raised], NoResult)
    /\ ncalls' = ncalls + 1
    /\ UNCHANGED <<nqueries, search>>

\* The same edges_from call on every instance.
CallEdgesFrom(vertex) ==
    /\ nqueries < MaxQueries
    /\ LET r == [b \in Backends |-> EdgesFrom(b, graphs[b], vertex)] IN
       /\ graphs' = [b \in Backends |-> r[b].g]
       /\ last' = Call("edges_from", vertex, vertex, 0,
                       [b \in Backends |-> r[b].raised],
                       [b \in Backends |-> r[b].result])
    /\ nqueries' = nqueries + 1
    /\ UNCHANGED <<added, ncalls, search>>

\* The same edges_to call on every instance.
CallEdgesTo(vertex) ==
    /\ nqueries < MaxQueries
    /\ LET r == [b \in Backends |-> EdgesTo(b, graphs[b], vertex)] IN
       /\ graphs' = [b \in Backends |-> r[b].g]
       /\ last' = Call("edges_to", vertex, vertex, 0,
                       [b \in Backends |-> r[b].raised],
                       [b \in Backends |-> r[b].result])
    /\ nqueries' = nqueries + 1
    /\ UNCHANGED <<added, ncalls, search>>

\* Reading the vertices property of every instance.
CallVertices ==
    /\ nqueries < MaxQueries
    /\ last' = Call("vertices", 0, 0, 0, NoOutcome,
                    [b \in Backends |-> BagOfSet(Vertices(b, graphs[b]))])
    /\ nqueries' = nqueries + 1
    /\ UNCHANGED <<graphs, added, ncalls, search>>

\* Reading the edges property of every instance.
CallEdges ==
    /\ nqueries < MaxQueries
    /\ last' = Call("edges", 0, 0, 0, NoOutcome,
                    [b \in Backends |-> Edges(b, graphs[b])])
    /\ nqueries' = nqueries + 1
    /\ UNCHANGED <<graphs, added, ncalls, search>>

\* validate_undirectedness() on every undirected instance.
CallValidate ==
    /\ nqueries < MaxQueries
    /\ last' = Call("validate_undirectedness", 0, 0, 0,
                    [b \in Backends |->
                       IF b \in UndirectedBackends
                       THEN ValidateUndirectedness(b, graphs[b]) ELSE NoException],
                    NoResult)
    /\ nqueries' = nqueries + 1
    /\ UNCHANGED <<graphs, added, ncalls, search>>

Next ==
    \/ \E u \in VertexIds, v \in VertexIds, w \in Weights : CallAddEdge(u, v, w)
    \/ \E vertex \in QueryIds : CallEdgesFrom(vertex)
    \/ \E vertex \in QueryIds : CallEdgesTo(vertex)
    \/ CallVertices
    \/ CallEdges
    \/ CallValidate

Spec == Init /\ [][Next]_vars

\* ------------------------------------------------------------ search engine

\* Vertex ids of the graphs that are searched.
SearchVertices == {1, 2, 3}

\* A start vertex that is in no graph.
AbsentVertices == {0}

\* Goals: a vertex of the graph, or 99, which no graph contains.
Goals == SearchVertices \cup {99}

Strategies == {"FIFO", "LIFO", "Priority"}

\* Largest number of add_edge calls that populate a searched graph.
MaxSearchEdges == 3

\* The weight an edge between u and v is added with: 5 between 1 and 3, else 1.
SearchWeight(u, v) == IF {u, v} = {1, 3} THEN 5 ELSE 1

SearchPairs == SearchVertices \X SearchVertices

\* The sets of ordered pairs a searched graph is populated from.
SearchPairSets == {S \in SUBSET SearchPairs : Cardinality(S) <= MaxSearchEdges}

PairBefore(p, q) == p[1] < q[1] \/ (p[1] = q[1] /\ p[2] < q[2])

RECURSIVE Populate(_, _, _)
\* The caller populates a backend: add_edge for every pair of S in ascending
\* order, a MultipleEdgesException being caught and the pair skipped.
Populate(b, acc, S) ==
    IF S = {} THEN acc
    ELSE LET p == CHOOSE x \in S : \A y \in S \ {x} : PairBefore(x, y)
             w == SearchWeight(p[1], p[2])
             r == AddEdge(b, acc.g, p[1], p[2], w)
         IN Populate(b,
                     [g     |-> r.g,
                      added |-> IF r.raised = NoException
                                THEN Append(acc.added, <<p[1], p[2], w>>)
                                ELSE acc.added],
                     S \ {p})

\* The vertex popped next: the oldest (FIFO), the newest (LIFO), or the one of
\* least weight, the oldest among equals (Priority).
PopIndex(strategy, frontier) ==
    IF strategy = "FIFO" THEN 1
    ELSE IF strategy = "LIFO" THEN Len(frontier)
    ELSE CHOOSE i \in DOMAIN frontier :
           /\ \A j \in DOMAIN frontier : frontier[i].weight <= frontier[j].weight
           /\ \A j \in 1..(i - 1) : frontier[j].weight > frontier[i].weight

RemoveAt(s, i) == SubSeq(s, 1, i - 1) \o SubSeq(s, i + 1, Len(s))

\* The goal predicate: visit() compares the vertex with the goal.
IsGoal(vertex, goal) == vertex = goal

RECURSIVE PathTo(_, _, _)
\* The predecessor links walked back from v to the start.
PathTo(pred, start, v) ==
    IF v = start THEN <<start>> ELSE Append(PathTo(pred, start, pred[v]), v)

Enqueued(frontier) == {frontier[i].vertex : i \in DOMAIN frontier}

RECURSIVE PushNeighbours(_, _, _, _, _)
\* For the records of edges_from(vertex), in the order given: a neighbour that
\* is neither visited nor enqueued gets `vertex` as its predecessor and is
\* pushed with the weight of its edge.
PushNeighbours(records, vertex, visited, frontier, pred) ==
    IF records = <<>> THEN [frontier |-> frontier, pred |-> pred]
    ELSE LET e == Head(records)
             n == e[2]
         IN IF n \in visited \/ n \in Enqueued(frontier)
            THEN PushNeighbours(Tail(records), vertex, visited, frontier, pred)
            ELSE PushNeighbours(Tail(records), vertex, visited,
                                Append(frontier, [vertex |-> n, weight |-> e[3]]),
                                [x \in DOMAIN pred \cup {n} |->
                                   IF x = n THEN vertex ELSE pred[x]])

\* The orders in which the records of a list without a promised order can come.
Orderings(S) == {s \in [1..Cardinality(S) -> S] : Range(s) = S}

SearchInit ==
    /\ \E S \in SearchPairSets :
         LET built == [b \in Backends |->
                         Populate(b, [g |-> NewGraph(b), added |-> <<>>], S)]
         IN /\ graphs = [b \in Backends |-> built[b].g]
            /\ added = [b \in Backends |-> built[b].added]
            /\ ncalls = Cardinality(S)
    /\ last = Call("new", 0, 0, 0, NoOutcome, NoResult)
    /\ nqueries = 0
    /\ search = IdleSearch

\* search(graph, start, goal, strategy): a start vertex that is not in the
\* graph is reported before any traversal; otherwise the frontier holds the
\* start vertex alone.
StartSearch(b, strategy, start, goal) ==
    /\ search.state = "Idle"
    /\ search' =
         IF start \notin Vertices(b, graphs[b])
         THEN [IdleSearch EXCEPT !.state = "MalformedSearchInput", !.backend = b,
                                 !.strategy = strategy, !.start = start, !.goal = goal]
         ELSE [IdleSearch EXCEPT !.state = "FrontierNonempty", !.backend = b,
                                 !.strategy = strategy, !.start = start, !.goal = goal,
                                 !.frontier = <<[vertex |-> start, weight |-> 0]>>]
    /\ UNCHANGED <<graphs, added, last, ncalls, nqueries>>

\* One transition of the engine: pop, goal test, mark visited, expand.
SearchStep ==
    /\ search.state = "FrontierNonempty"
    /\ LET b      == search.backend
           i      == PopIndex(search.strategy, search.frontier)
           vertex == search.frontier[i].vertex
           rest   == RemoveAt(search.frontier, i)
           r      == EdgesFrom(b, graphs[b], vertex)
           seen   == search.visited \cup {vertex}
       IN IF IsGoal(vertex, search.goal)
          THEN /\ search' = [search EXCEPT
                               !.state = "GoalFound", !.frontier = rest,
                               !.path = PathTo(search.pred, search.start, vertex)]
               /\ UNCHANGED graphs
          ELSE IF r.raised # NoException
          THEN /\ search' = [search EXCEPT !.state = "Error", !.frontier = rest,
                                           !.visited = seen]
               /\ UNCHANGED graphs
          ELSE \E records \in Orderings(BagSet(r.result)) :
                 LET pushed == PushNeighbours(records, vertex, seen, rest, search.pred)
                 IN /\ search' = [search EXCEPT
                                    !.state = IF pushed.frontier = <<>>
                                              THEN "FrontierExhausted"
                                              ELSE "FrontierNonempty",
                                    !.frontier = pushed.frontier,
                                    !.visited = seen,
                                    !.pred = pushed.pred]
                    /\ graphs' = [graphs EXCEPT ![b] = r.g]
    /\ UNCHANGED <<added, last, ncalls, nqueries>>

SearchNext ==
    \/ \E b \in Backends, strategy \in Strategies,
          start \in SearchVertices \cup AbsentVertices, goal \in Goals :
         StartSearch(b, strategy, start, goal)
    \/ SearchStep

SearchSpec == SearchInit /\ [][SearchNext]_vars

\* The engine is a synchronous loop: a step that can be taken is taken.
FairSearchSpec == SearchSpec /\ WF_vars(SearchNext)

\* ------------------------------------------------------- add_edge alone

AddEdgeNext ==
    \E u \in VertexIds, v \in VertexIds, w \in Weights : CallAddEdge(u, v, w)

\* Instances that only ever receive add_edge calls.
AddEdgeSpec == Init /\ [][AddEdgeNext]_vars

\* ------------------------------------------------- storage written directly

\* graph._edge_list.add((vertex_from, vertex_to, weight)) on the undirected
\* edge-list instance: a record goes into the stored set and nothing else is
\* touched.
WriteEdgeList(vertex_from, vertex_to, weight) ==
    /\ ncalls < MaxCalls
    /\ graphs' = [graphs EXCEPT !["UndirectedEdgeListGraph"].edge_list =
                                   @ \cup {<<vertex_from, vertex_to, weight>>}]
    /\ last' = Call("write", vertex_from, vertex_to, weight, NoOutcome, NoResult)
    /\ ncalls' = ncalls + 1
    /\ UNCHANGED <<added, nqueries, search>>

\* graph._resize(size); graph._adjacency_matrix[row][column] = weight on the
\* undirected matrix instance, the size being large enough for every id.
WriteMatrix(row, column, weight) ==
    /\ ncalls < MaxCalls
    /\ LET grown == MatrixResize(graphs["UndirectedAdjacencyMatrixGraph"], MaxVertex + 1)
       IN graphs' = [graphs EXCEPT !["UndirectedAdjacencyMatrixGraph"] =
                        [n    |-> grown.n,
                         cell |-> [grown.cell EXCEPT ![<<row, column>>] = ToDTYPE(weight)]]]
    /\ last' = Call("write", row, column, weight, NoOutcome, NoResult)
    /\ ncalls' = ncalls + 1
    /\ UNCHANGED <<added, nqueries, search>>

\* graph._adjacency_list[key].append((neighbour, weight)) on the adjacency-list
\* instance.
WriteAdjList(key, neighbour, weight) ==
    /\ ncalls < MaxCalls
    /\ graphs' = [graphs EXCEPT !["UndirectedAdjacencyListGraph"].adjacency_list =
                                   AdjListAppend(@, key, <<neighbour, weight>>)]
    /\ last' = Call("write", key, neighbour, weight, NoOutcome, NoResult)
    /\ ncalls' = ncalls + 1
    /\ UNCHANGED <<added, nqueries, search>>

StorageNext ==
    \/ \E u \in VertexIds, v \in VertexIds, w \in Weights : CallAddEdge(u, v, w)
    \/ \E u \in VertexIds, v \in VertexIds, w \in Weights : WriteEdgeList(u, v, w)
    \/ \E u \in VertexIds, v \in VertexIds, w \in Weights : WriteMatrix(u, v, w)
    \/ \E u \in VertexIds, v \in VertexIds, w \in Weights : WriteAdjList(u, v, w)
    \/ CallValidate

\* Instances whose storage is reached by add_edge calls and by direct writes.
StorageSpec == Init /\ [][StorageNext]_vars

\* ===================================================================== claims

Endpoints(E) == {e[1] : e \in E} \cup {e[2] : e \in E}

\* Every add_edge call made so far returned on backend b.
AllReturned(b) == Len(added[b]) = ncalls

\* Equal up to the float32 representation of a weight.
SameWeight(w1, w2) == ToDTYPE(w1) = ToDTYPE(w2)

HasRecord(E, u, v, w) == \E r \in E : r[1] = u /\ r[2] = v /\ SameWeight(r[3], w)

\* The records the undirected tests expect: every added edge and its mirror.
ExpectedUndirected(b) ==
    Range(added[b]) \cup {<<e[2], e[1], e[3]>> : e \in Range(added[b])}

\* The records of a bag that leave / enter a vertex, with their counts.
BagFrom(bag, vertex) == [r \in {x \in DOMAIN bag : x[1] = vertex} |-> bag[r]]

BagTo(bag, vertex) == [r \in {x \in DOMAIN bag : x[2] = vertex} |-> bag[r]]

\* The pair (u, v) was added to b by a call that returned (in either
\* direction on an undirected backend).
PreviouslyAdded(b, u, v) ==
    \E e \in Range(added[b]) :
       \/ e[1] = u /\ e[2] = v
       \/ b \in UndirectedBackends /\ e[1] = v /\ e[2] = u

\* C1: on every undirected backend, after add_edge calls that all returned,
\* the last being add_edge(u, v, w), edges() holds (u, v, w) and (v, u, w)
\* (weights compared up to float32), has as many records as there are distinct
\* expected records, and validate_undirectedness() does not raise.
C1_UndirectedAddEdge ==
    \A b \in UndirectedBackends :
       (last.op = "add_edge" /\ AllReturned(b)) =>
          LET E == Edges(b, graphs[b]) IN
          /\ HasRecord(BagSet(E), last.u, last.v, last.w)
          /\ HasRecord(BagSet(E), last.v, last.u, last.w)
          /\ BagLen(E) = Cardinality(ExpectedUndirected(b))
          /\ ValidateUndirectedness(b, graphs[b]) = NoException

\* C2: on every backend, an add_edge of a pair that an earlier call added
\* (in either direction on an undirected backend) raises
\* MultipleEdgesException, whatever the two weights, and a rejected call
\* leaves edges() and vertices() as they were.
C2_DuplicateRejected ==
    [][\A b \in Backends :
          (last'.op = "add_edge" /\ ncalls' = ncalls + 1) =>
             /\ PreviouslyAdded(b, last'.u, last'.v)
                   => last'.out[b] = "MultipleEdgesException"
             /\ last'.out[b] = "MultipleEdgesException"
                   => /\ Edges(b, graphs'[b]) = Edges(b, graphs[b])
                      /\ Vertices(b, graphs'[b]) = Vertices(b, graphs[b])]_vars

\* The records of edges() with every weight in its float32 representation.
TolerantEdgeSet(b) == {<<r[1], r[2], ToDTYPE(r[3])>> : r \in BagSet(Edges(b, graphs[b]))}

\* C3: after the same add_edge calls, the backends of the same directedness
\* have equal vertices() sets and equal edges() sets (weights compared up to
\* float32), and each call returned or raised identically in all of them.
C3_CrossBackendEquivalence ==
    nqueries = 0 =>
       \A b1 \in Backends, b2 \in Backends :
          ((b1 \in DirectedBackends) = (b2 \in DirectedBackends)) =>
             /\ Vertices(b1, graphs[b1]) = Vertices(b2, graphs[b2])
             /\ TolerantEdgeSet(b1) = TolerantEdgeSet(b2)
             /\ last.out[b1] = last.out[b2]

\* C4: on every directed backend, after add_edge calls that all returned,
\* edges() is exactly the added triples, one record per call, and vertices()
\* is exactly the endpoints of the added edges.
C4_DirectedAddEdge ==
    \A b \in DirectedBackends :
       AllReturned(b) =>
          /\ Edges(b, graphs[b]) = BagOfSet(Range(added[b]))
          /\ BagLen(Edges(b, graphs[b])) = Len(added[b])
          /\ Vertices(b, graphs[b]) = Endpoints(Range(added[b]))

\* C5: on every backend, after add_edge calls that all returned, for a vertex
\* that is an endpoint of a stored edge edges_from(v) is the records of
\* edges() with source v and edges_to(v) those with target v, record for
\* record and in the same number.
C5_NeighbourQueries ==
    \A b \in Backends :
       LET E == Edges(b, graphs[b]) IN
       (AllReturned(b) /\ last.u \in Endpoints(BagSet(E))) =>
          /\ last.op = "edges_from"
                => last.out[b] = NoException /\ last.res[b] = BagFrom(E, last.u)
          /\ last.op = "edges_to"
                => last.out[b] = NoException /\ last.res[b] = BagTo(E, last.u)

VerticesAreEndpoints(b, g) == Vertices(b, g) = Endpoints(BagSet(Edges(b, g)))

\* C6: a new graph has no vertices and no edges; after every call vertices()
\* is exactly the endpoints of the records of edges(); and a read query
\* changes neither vertices() nor edges().
C6_VerticesAreEndpoints ==
    /\ \A b \in Backends :
          Vertices(b, graphs[b]) = {} /\ BagLen(Edges(b, graphs[b])) = 0
    /\ [][\A b \in Backends :
             /\ VerticesAreEndpoints(b, graphs'[b])
             /\ nqueries' = nqueries + 1
                   => /\ Vertices(b, graphs'[b]) = Vertices(b, graphs[b])
                      /\ Edges(b, graphs'[b]) = Edges(b, graphs[b])]_vars

\* C7: on the edge-list and adjacency-list backends edges_from(v) and
\* edges_to(v) raise VertexNotFoundException exactly when v was never an
\* endpoint of an added edge.
C7_VertexNotFound ==
    last.op \in {"edges_from", "edges_to"} =>
       \A b \in EdgeListBackends \cup AdjListBackends :
          (last.out[b] = "VertexNotFoundException")
             <=> (last.u \notin Endpoints(Range(added[b])))

\* C8: on the matrix backends edges_from(v) and edges_to(v) return an empty
\* list without raising, for every v that never appeared in an edge, ids at
\* or beyond the grid size and a new graph included.
C8_MatrixAbsentVertex ==
    last.op \in {"edges_from", "edges_to"} =>
       \A b \in MatrixBackends :
          last.u \notin Endpoints(Range(added[b])) =>
             last.out[b] = NoException /\ BagLen(last.res[b]) = 0

\* The graph of the search example.
ExampleEdges == {<<1, 2, 1>>, <<2, 3, 1>>, <<1, 3, 5>>}

\* A breadth-first or priority-ordered search from 1 to 3 on the example.
ExampleRun ==
    /\ search.state # "Idle"
    /\ Range(added[search.backend]) = ExampleEdges
    /\ search.start = 1
    /\ search.goal = 3
    /\ search.strategy \in {"FIFO", "Priority"}

RECURSIVE Reach(_, _)
\* The vertices reachable from S along the records E.
Reach(E, S) ==
    LET N == S \cup {e[2] : e \in {x \in E : x[1] \in S}}
    IN IF N = S THEN S ELSE Reach(E, N)

GoalReachable ==
    search.goal \in Reach(BagSet(Edges(search.backend, graphs[search.backend])),
                          {search.start})

Mirrored(E) == \A r \in E : <<r[2], r[1], r[3]>> \in E

\* C11: on every undirected backend and in every stored state, states written
\* into the storage directly included, validate_undirectedness() raises
\* GraphInvariantViolationException when some stored record (u, v, w) has no
\* mirror (v, u, w), and returns when every stored record has its mirror with
\* the same weight.
C11_ValidateUndirectedness ==
    last.op = "validate_undirectedness" =>
       \A b \in UndirectedBackends :
          last.out[b] = IF Mirrored(BagSet(Edges(b, graphs[b])))
                        THEN NoException
                        ELSE "GraphInvariantViolationException"


\* The cells add_edge(u, v, w) writes on backend b.
WrittenCells(b, u, v) ==
    IF b \in UndirectedBackends THEN {<<u, v>>, <<v, u>>} ELSE {<<u, v>>}

\* C12: on the matrix backends an add_edge whose larger vertex id is at or
\* beyond the grid size returns, grows the grid to (larger id + 1) squared,
\* leaves every cell of the old grid at its coordinates with its value, writes
\* the weight (in its float32 representation) into the edge cell, and into
\* its mirror on the undirected backend, and leaves every other new cell zero.
C12_MatrixResize ==
    [][\A b \in MatrixBackends :
          LET old      == graphs[b]
              new      == graphs'[b]
              greatest == Max(last'.u, last'.v)
          IN (last'.op = "add_edge" /\ ncalls' = ncalls + 1 /\ greatest >= old.n) =>
                /\ last'.out[b] = NoException
                /\ new.n = greatest + 1
                /\ DOMAIN new.cell = MatrixIndex(greatest + 1)
                /\ \A p \in MatrixIndex(old.n) : new.cell[p] = old.cell[p]
                /\ \A p \in MatrixIndex(new.n) \ MatrixIndex(old.n) :
                      IF p \in WrittenCells(b, last'.u, last'.v)
                      THEN new.cell[p] = ToDTYPE(last'.w)
                      ELSE new.cell[p] = 0]_vars

\* add_edge(0, 0, 1) made a grid of size 1, and add_edge(1, 0, 16777217) grew
\* it to size 2 around the stored cell.
C12_Witness ==
    /\ last.op = "add_edge" /\ last.u = 1 /\ last.v = 0 /\ last.w = 16777217
    /\ \A b \in MatrixBackends : added[b] = <<<<0, 0, 1>>, <<1, 0, 16777217>>>>
    /\ graphs["DirectedAdjacencyMatrixGraph"] =
         [n |-> 2, cell |-> [p \in MatrixIndex(2) |->
                               IF p = <<0, 0>> THEN 1
                               ELSE IF p = <<1, 0>> THEN 16777216 ELSE 0]]
    /\ graphs["UndirectedAdjacencyMatrixGraph"] =
         [n |-> 2, cell |-> [p \in MatrixIndex(2) |->
                               IF p = <<0, 0>> THEN 1
                               ELSE IF p = <<1, 1>> THEN 0 ELSE 16777216]]


\* No ordered (from, to) pair is carried by two records of the list a bag
\* stands for.
PairsDistinct(bag) ==
    \A r \in DOMAIN bag :
       /\ bag[r] = 1
       /\ \A q \in DOMAIN bag : (q[1] = r[1] /\ q[2] = r[2]) => q = r

\* C13: on every backend, after every sequence of add_edge calls, returned or
\* rejected, self-loops included, no two records of edges() have the same
\* ordered (from, to) pair.
C13_NoDuplicatePairs ==
    \A b \in Backends : PairsDistinct(Edges(b, graphs[b]))

====
